---- MODULE Spec2Model ----
(***************************************************************************)
(* AbstractDiskWriter (aria2): one instance, the descriptor table and the  *)
(* file system it talks to.  Every OS call is a step of the environment    *)
(* whose outcome is chosen among the outcomes the call can have; what the  *)
(* instance does with the outcome is translated from AbstractDiskWriter.cc.*)
(***************************************************************************)
EXTENDS Integers, Sequences, FiniteSets

\* ---------------------------------------------------------------- bounds
\* longest buffer handed to writeData / readData
MaxLen == 2

\* the device holds files of at most this many bytes
MaxFileLen == MaxLen + 1

Bytes == {0, 1}
Fds == {0, 1}
Paths == {"p", "d"}
\* off_t is signed: -1 is the value lseek returns on failure
Offsets == {-1, 0, 1}
Lengths == 0 .. MaxLen
\* buffers handed to writeData: per length, the two alternating byte patterns
DataSet == {[i \in 1 .. n |-> (i + b) % 2] : n \in Lengths, b \in Bytes}

EINTR == "EINTR"
ENOSPC == "ENOSPC"
EIO == "EIO"
EBADF == "EBADF"
EINVAL == "EINVAL"
EACCES == "EACCES"

\* descriptor status flags: the O_DIRECT bit is the one the model follows; -1,
\* what a failed fcntl(F_GETFL) returns, has every bit set
O_DIRECT == 1
HasDirect(w) == w % 2 = 1
\* line 183: flg|O_DIRECT
OrDirect(w) == IF HasDirect(w) THEN w ELSE w + O_DIRECT
\* line 194: flg&(~O_DIRECT)
AndNotDirect(w) == IF HasDirect(w) THEN w - O_DIRECT ELSE w
\* the addFlags handed to createFile
AddFlags == {0, O_DIRECT}

VARIABLES
  disk,          \* path -> [kind, data]: the file system
  fdtab,         \* descriptor -> [open, path, pos, direct]: the process's
                 \* descriptor table (direct: O_DIRECT is set)
  errno,         \* errno as the operation running finds it: what its latest failed
                 \* OS call set (the code reads errno only after a call failed)
  fd,            \* AbstractDiskWriter::fd
  filename,      \* AbstractDiskWriter::filename
  pc,            \* where the running operation stands ("idle": none running)
  op,            \* the operation running or last run: name, arguments, fd at entry
  writtenLength, \* writeDataInternal's local
  ret,           \* writeDataInternal's / readDataInternal's local
  outcome,       \* "none" while running, then "ok" or the exception thrown
  retval,        \* value returned by readData / size
  rbuf,          \* bytes readData left in the caller's buffer
  call,          \* arguments of the latest OS write/read call of the operation
  accepted,      \* bytes the OS accepted (write) so far in the operation
  startPos,      \* file position the operation's seek left the cursor at
  osErr,         \* an OS call of the operation failed with an error other than EINTR
  failErrno,     \* errno of the OS write/read call of the operation that failed so
  lastWrite,     \* the successful writeData that immediately precedes (kept by a
                 \* readData of the same offset and length only), if any; split:
                 \* the OS took its bytes in more than one call
  closeCalls,    \* OS close calls issued by the operation
  calls,         \* OS write/read calls issued so far by the running operation,
                 \* modulo 2 (0 when none runs)
  ENABLE_DIRECT_IO, \* the build defines ENABLE_DIRECT_IO
  directIOAllowed,  \* AbstractDiskWriter::_directIOAllowed
  flg,           \* enableDirectIO's / disableDirectIO's local
  flagCalls,     \* the operation has issued fcntl calls (1) or none (0)
  life           \* how far the calls so far have gone through createFile(path),
                 \* a successful writeData(data, L, offset), closeFile, guarded
                 \* operations, openFile(path), readData(L, offset)

vars == <<disk, fdtab, errno, fd, filename, pc, op, writtenLength, ret, outcome,
          retval, rbuf, call, accepted, startPos, osErr, failErrno, lastWrite,
          closeCalls, calls, ENABLE_DIRECT_IO, directIOAllowed, flg, flagCalls,
          life>>


\* ------------------------------------------------------------ the OS side
ClosedEntry == [open |-> FALSE, path |-> "", pos |-> 0, direct |-> FALSE]
NoFile == [kind |-> "none", data |-> <<>>]
DirEntry == [kind |-> "dir", data |-> <<>>]
RegFile(d) == [kind |-> "file", data |-> d]

FdValid(f) == f \in Fds /\ fdtab[f].open

\* the table once the instance has overwritten its fd: the descriptor it held,
\* if any, stays open, but no call can name it any more, so its cursor and its
\* flags are not tracked further
Lost(held) ==
  [f \in Fds |-> IF f = held THEN [fdtab[f] EXCEPT !.pos = 0, !.direct = FALSE]
                 ELSE fdtab[f]]

\* the table with descriptor n opened on path with the given flags, fd being
\* overwritten with n
Opened(n, path, held, flags) ==
  [Lost(held) EXCEPT ![n] = [open |-> TRUE, path |-> path, pos |-> 0,
                             direct |-> HasDirect(flags)]]
FreeFds == {f \in Fds : ~fdtab[f].open}
LowestFree == CHOOSE f \in FreeFds : \A g \in FreeFds : f <= g
OpenFds == {f \in Fds : fdtab[f].open}

FileOf(f) == disk[fdtab[f].path].data

Max(a, b) == IF a >= b THEN a ELSE b
Min(a, b) == IF a <= b THEN a ELSE b

\* bytes b written at position pos of content c (a gap reads as zeros)
PutBytes(c, pos, b) ==
  [i \in 1 .. Max(Len(c), pos + Len(b)) |->
     IF i > pos /\ i <= pos + Len(b) THEN b[i - pos]
     ELSE IF i <= Len(c) THEN c[i] ELSE 0]

\* content c cut or zero-extended to n bytes
Resize(c, n) == [i \in 1 .. n |-> IF i <= Len(c) THEN c[i] ELSE 0]

Slice(s, from, n) == [i \in 1 .. n |-> s[from + i]]

\* lseek(f, offset, SEEK_SET): the offset, or -1
Lseek(f, offset) == IF FdValid(f) /\ offset >= 0 THEN offset ELSE -1
LseekErrno(f) == IF FdValid(f) THEN EINVAL ELSE EBADF

NoWrite == [valid |-> FALSE, data |-> <<>>, offset |-> 0, split |-> FALSE]
NoCall == [pos |-> 0, n |-> 0, avail |-> 0]
NoLife == [phase |-> "none", path |-> "", data |-> <<>>, offset |-> 0]
NoOp == [name |-> "new", data |-> <<>>, len |-> 0, offset |-> 0, fd0 |-> -1]

\* the instance the constructor leaves, and the OS around it
Constructed ==
  /\ disk \in {[p \in Paths |-> IF p = "d" THEN DirEntry ELSE NoFile],
               [p \in Paths |-> IF p = "d" THEN DirEntry ELSE RegFile(<<1, 0>>)]}
  /\ fdtab = [f \in Fds |-> ClosedEntry]
  /\ errno = "0"
  /\ fd = -1
  /\ filename = ""
  /\ pc = "idle"
  /\ op = NoOp
  /\ writtenLength = 0
  /\ ret = 0
  /\ outcome = "ok"
  /\ retval = 0
  /\ rbuf = <<>>
  /\ call = NoCall
  /\ accepted = 0
  /\ startPos = 0
  /\ osErr = FALSE
  /\ failErrno = "0"
  /\ lastWrite = NoWrite
  /\ closeCalls = 0
  /\ calls = 0
  /\ flg = 0
  /\ flagCalls = 0
  /\ life = NoLife

\* the build without ENABLE_DIRECT_IO: the bodies of enableDirectIO and
\* disableDirectIO are empty and _directIOAllowed is never read
Init ==
  /\ Constructed
  /\ ENABLE_DIRECT_IO = FALSE
  /\ directIOAllowed = FALSE

\* the build with ENABLE_DIRECT_IO; the constructor does not set
\* _directIOAllowed
InitDirect ==
  /\ Constructed
  /\ ENABLE_DIRECT_IO = TRUE
  /\ directIOAllowed \in BOOLEAN


\* ------------------------------------------------- bookkeeping of a step
\* the calls so far, once the call name has ended with outcome out, the
\* instance's path then being path
LifeAfter(name, out, path) ==
  IF name = "createFile" /\ out = "ok"
  THEN [NoLife EXCEPT !.phase = "created", !.path = path]
  ELSE IF name = "closeFile" /\ life.phase = "written"
  THEN [life EXCEPT !.phase = "closed"]
  ELSE IF life.phase = "closed" /\ name \in {"seek", "truncate", "size"}
  THEN life
  ELSE IF life.phase = "closed" /\ name = "openFile" /\ out = "ok"
          /\ path = life.path
  THEN [life EXCEPT !.phase = "reopened"]
  ELSE NoLife

\* the calls so far, a writeData(data, L, offset) being at pcn with outcome out
LifeInWrite(pcn, out, data, offset) ==
  IF life.phase = "closed" THEN life
  ELSE IF life.phase = "created"
  THEN IF pcn = "w_call" THEN life
       ELSE IF out = "ok"
       THEN [life EXCEPT !.phase = "written", !.data = data, !.offset = offset]
       ELSE NoLife
  ELSE NoLife

\* the calls so far, readData(len, offset) having begun
LifeInRead(len, offset) ==
  IF life.phase = "closed" THEN life
  ELSE IF life.phase = "reopened" /\ len = Len(life.data) /\ offset = life.offset
  THEN [life EXCEPT !.phase = "read"]
  ELSE NoLife

\* an operation that runs to its end in one step: its record and its outcome
Atomic(name, len, offset, out, rv, failed, e) ==
  /\ op' = [name |-> name, data |-> <<>>, len |-> len, offset |-> offset, fd0 |-> fd]
  /\ outcome' = out
  /\ retval' = rv
  /\ rbuf' = <<>>
  /\ writtenLength' = 0
  /\ ret' = 0
  /\ call' = NoCall
  /\ accepted' = 0
  /\ startPos' = 0
  /\ osErr' = failed
  /\ failErrno' = "0"
  /\ errno' = (IF failed THEN e ELSE "0")
  /\ lastWrite' = NoWrite
  /\ calls' = 0
  /\ flg' = 0
  /\ flagCalls' = 0
  /\ life' = LifeAfter(name, out, filename')
  /\ UNCHANGED <<ENABLE_DIRECT_IO, directIOAllowed>>

\* ------------------------------------------------------------ lifecycle
\* open(filename, O_RDWR|O_BINARY, OPEN_MODE) of line 88 succeeding
OpenExistingOk(name, path) ==
  /\ FreeFds # {}
  /\ fdtab' = Opened(LowestFree, path, fd, 0)
  /\ fd' = LowestFree
  /\ disk' = disk
  /\ Atomic(name, 0, 0, "ok", 0, FALSE, "0")

\* open(...) < 0: fd takes the -1 it returned, DlAbortEx is thrown
OpenFails(name) ==
  /\ fd' = -1
  /\ fdtab' = Lost(fd)
  /\ disk' = disk
  /\ Atomic(name, 0, 0, "DlAbortEx", 0, TRUE, EACCES)

openExistingFileBody(name, path) ==
  /\ filename' = path
  /\ IF disk[path].kind # "file"
     THEN /\ UNCHANGED <<fd, fdtab, disk>>
          /\ Atomic(name, 0, 0, "DlAbortEx", 0, FALSE, "0")
     ELSE \/ OpenExistingOk(name, path)
          \/ OpenFails(name)

CreateOkKeepsContent(name, path, addFlags) ==
  /\ disk[path].kind # "dir"
  /\ FreeFds # {}
  /\ fdtab' = Opened(LowestFree, path, fd, addFlags)
  /\ fd' = LowestFree
  /\ disk' = (IF disk[path].kind = "file" THEN disk
              ELSE [disk EXCEPT ![path] = RegFile(<<>>)])
  /\ Atomic(name, 0, 0, "ok", 0, FALSE, "0")
\* open(filename, O_CREAT|O_RDWR|O_TRUNC|O_BINARY|addFlags, OPEN_MODE) succeeding
CreateOk(name, path, addFlags) ==
  /\ disk[path].kind # "dir"
  /\ FreeFds # {}
  /\ fdtab' = Opened(LowestFree, path, fd, addFlags)
  /\ fd' = LowestFree
  /\ disk' = [disk EXCEPT ![path] = RegFile(<<>>)]
  /\ Atomic(name, 0, 0, "ok", 0, FALSE, "0")

\* Util::mkdirs (line 98) makes the ancestor directories: it touches no file, no
\* descriptor and no field of the instance
createFileBody(name, path, addFlags) ==
  /\ filename' = path
  /\ \/ CreateOk(name, path, addFlags)
     \/ OpenFails(name)

\* the virtual creation hook openFile falls to when the path does not exist
initAndOpenFile(name, path) == createFileBody(name, path, 0)

openFile(path) ==
  /\ pc = "idle"
  /\ pc' = "idle"
  /\ closeCalls' = 0
  /\ IF disk[path].kind # "none"
     THEN openExistingFileBody("openFile", path)
     ELSE initAndOpenFile("openFile", path)

openExistingFile(path) ==
  /\ pc = "idle"
  /\ pc' = "idle"
  /\ closeCalls' = 0
  /\ openExistingFileBody("openExistingFile", path)

createFile(path, addFlags) ==
  /\ pc = "idle"
  /\ pc' = "idle"
  /\ closeCalls' = 0
  /\ createFileBody("createFile", path, addFlags)

IsOpenAlways(f) == TRUE
\* line 72: fd >= 0
IsOpen(f) == f >= 0

\* if(fd >= 0) { close(fd); fd = -1; }   close releases the descriptor; its
\* return value is not looked at
closeFileBody(name) ==
  /\ IF IsOpen(fd)
     THEN /\ fdtab' = [fdtab EXCEPT ![fd] = ClosedEntry]
          /\ fd' = -1
          /\ closeCalls' = 1
     ELSE /\ UNCHANGED <<fdtab, fd>>
          /\ closeCalls' = 0
  /\ UNCHANGED <<disk, filename>>
  /\ Atomic(name, 0, 0, "ok", 0, FALSE, "0")

closeFile ==
  /\ pc = "idle"
  /\ pc' = "idle"
  /\ closeFileBody("closeFile")

\* ~AbstractDiskWriter(): closeFile(), and the instance is gone
Destructor ==
  /\ pc = "idle"
  /\ closeFileBody("destructor")
  /\ pc' = "destroyed"

\* ------------------------------------------------------ positioned transfer
\* line 127: offset != lseek(fd, offset, SEEK_SET)
SeekThrows(f, offset) == offset # Lseek(f, offset)

\* the descriptor table after lseek(f, offset, SEEK_SET)
AfterLseek(f, offset) ==
  IF Lseek(f, offset) >= 0 THEN [fdtab EXCEPT ![f].pos = offset] ELSE fdtab

seek(offset) ==
  /\ pc = "idle"
  /\ pc' = "idle"
  /\ closeCalls' = 0
  /\ fdtab' = AfterLseek(fd, offset)
  /\ UNCHANGED <<disk, fd, filename>>
  /\ Atomic("seek", 0, offset,
            IF SeekThrows(fd, offset) THEN "DlAbortEx" ELSE "ok", 0,
            Lseek(fd, offset) = -1, LseekErrno(fd))

\* entry of writeData / readData: the operation's record, its seek(offset)
Enter(name, data, len, offset) ==
  /\ op' = [name |-> name, data |-> data, len |-> len, offset |-> offset, fd0 |-> fd]
  /\ fdtab' = AfterLseek(fd, offset)
  /\ errno' = (IF Lseek(fd, offset) = -1 THEN LseekErrno(fd) ELSE "0")
  /\ calls' = 0
  /\ osErr' = (Lseek(fd, offset) = -1)
  /\ failErrno' = "0"
  /\ startPos' = (IF FdValid(fd) THEN AfterLseek(fd, offset)[fd].pos ELSE 0)
  /\ writtenLength' = 0
  /\ ret' = 0
  /\ call' = NoCall
  /\ accepted' = 0
  /\ rbuf' = <<>>
  /\ retval' = 0
  /\ closeCalls' = 0
  /\ flg' = 0
  /\ flagCalls' = 0
  /\ UNCHANGED <<disk, fd, filename, ENABLE_DIRECT_IO, directIOAllowed>>

\* line 107: (size_t)writtenLength < len
LoopCond(w, len) == w < len
NextBufPosNoAdvance(w) == 0
\* line 109: data+writtenLength
NextBufPos(w) == w
RemainingWhole(len, w) == len
\* line 109: len-writtenLength
Remaining(len, w) == len - w
IsInterruptedNever(r, e) == FALSE
IsInterruptedAnyError(r, e) == r = -1
\* lines 109, 121: ret == -1 && errno == EINTR
IsInterrupted(r, e) == r = -1 /\ e = EINTR
\* line 113: writtenLength += ret
Advance(w, r) == w + r
WriteExceptionAlwaysAbort(e) == "DlAbortEx"
\* lines 139-143: the exception writeData throws for errno e
WriteException(e) ==
  IF e = ENOSPC THEN "DownloadFailureException" ELSE "DlAbortEx"

WriteDataBegin(data, offset) ==
  /\ pc = "idle"
  /\ Enter("writeData", data, Len(data), offset)
  /\ IF SeekThrows(fd, offset)
     THEN pc' = "idle" /\ outcome' = "DlAbortEx" /\ lastWrite' = NoWrite
     ELSE IF LoopCond(0, Len(data))
     THEN pc' = "w_call" /\ outcome' = "none" /\ lastWrite' = NoWrite
     ELSE /\ pc' = "idle"
          /\ outcome' = "ok"
          /\ lastWrite' = [valid |-> TRUE, data |-> data, offset |-> offset,
                           split |-> FALSE]
  /\ life' = LifeInWrite(pc', outcome', data, offset)

\* what writeDataInternal and writeData do with the value r write returned
\* (errno e): retry the call, throw, or add r and go round the loop
AfterWrite(r, e) ==
  IF IsInterrupted(r, e)
  THEN /\ pc' = "w_call"
       /\ ret' = r
       /\ UNCHANGED <<writtenLength, outcome, lastWrite>>
  ELSE IF r = -1
  THEN /\ pc' = "idle"
       /\ ret' = r
       /\ outcome' = WriteException(e)
       /\ UNCHANGED <<writtenLength, lastWrite>>
  ELSE /\ writtenLength' = Advance(writtenLength, r)
       /\ IF LoopCond(writtenLength', op.len)
          THEN pc' = "w_call" /\ ret' = 0 /\ UNCHANGED <<outcome, lastWrite>>
          ELSE /\ pc' = "idle"
               /\ ret' = r
               /\ outcome' = "ok"
               /\ lastWrite' = [valid |-> TRUE, data |-> op.data,
                                offset |-> op.offset, split |-> call'.pos > 0]

\* one write(fd, data+writtenLength, len-writtenLength) of line 109 and what
\* the loop does with its value
WriteStep ==
  /\ pc = "w_call"
  /\ call' = [pos |-> NextBufPos(writtenLength),
              n |-> Remaining(op.len, writtenLength), avail |-> 0]
  /\ IF ~FdValid(fd)
     THEN /\ errno' = EBADF
          /\ osErr' = TRUE
          /\ failErrno' = EBADF
          /\ AfterWrite(-1, EBADF)
          /\ UNCHANGED <<disk, fdtab, accepted>>
     ELSE \/ \E e \in {EINTR, ENOSPC, EIO} :
               /\ errno' = e
               /\ osErr' = (osErr \/ e # EINTR)
               /\ failErrno' = (IF e # EINTR THEN e ELSE failErrno)
               /\ AfterWrite(-1, e)
               /\ UNCHANGED <<disk, fdtab, accepted>>
          \/ \E k \in 0 .. call'.n :
               /\ fdtab[fd].pos + k <= MaxFileLen
               /\ accepted' = accepted + k
               /\ disk' = (IF k = 0 THEN disk
                           ELSE [disk EXCEPT ![fdtab[fd].path].data =
                                   PutBytes(@, fdtab[fd].pos,
                                            Slice(op.data, call'.pos, k))])
               /\ fdtab' = [fdtab EXCEPT ![fd].pos = @ + k]
               /\ AfterWrite(k, errno)
               /\ UNCHANGED <<errno, osErr, failErrno>>
  /\ calls' = (IF pc' = "idle" THEN 0 ELSE 1 - calls)
  /\ life' = LifeInWrite(pc', outcome', op.data, op.offset)
  /\ UNCHANGED <<fd, filename, op, retval, rbuf, startPos, closeCalls,
                 ENABLE_DIRECT_IO, directIOAllowed, flg, flagCalls>>

ReadDataBegin(len, offset) ==
  /\ pc = "idle"
  /\ Enter("readData", <<>>, len, offset)
  /\ lastWrite' = (IF len = Len(lastWrite.data) /\ offset = lastWrite.offset
                   THEN lastWrite ELSE NoWrite)
  /\ life' = LifeInRead(len, offset)
  /\ IF SeekThrows(fd, offset)
     THEN pc' = "idle" /\ outcome' = "DlAbortEx"
     ELSE pc' = "r_call" /\ outcome' = "none"

\* bytes between the cursor of descriptor f and the end of its file
Avail(f) == Max(0, Len(FileOf(f)) - fdtab[f].pos)

\* what readDataInternal and readData do with the value r read returned
AfterRead(r, e) ==
  /\ ret' = r
  /\ IF IsInterrupted(r, e)
     THEN pc' = "r_call" /\ UNCHANGED <<outcome, retval>>
     ELSE IF r < 0
     THEN pc' = "idle" /\ outcome' = "DlAbortEx" /\ retval' = retval
     ELSE pc' = "idle" /\ outcome' = "ok" /\ retval' = r

\* one read(fd, data, len) of line 121 and what readData does with its value
ReadStep ==
  /\ pc = "r_call"
  /\ IF ~FdValid(fd)
     THEN /\ errno' = EBADF
          /\ osErr' = TRUE
          /\ failErrno' = EBADF
          /\ call' = [pos |-> 0, n |-> op.len, avail |-> 0]
          /\ AfterRead(-1, EBADF)
          /\ UNCHANGED <<fdtab, rbuf>>
     ELSE /\ call' = [pos |-> 0, n |-> op.len, avail |-> Min(op.len, Avail(fd))]
          /\ \/ \E e \in {EINTR, EIO} :
                  /\ errno' = e
                  /\ osErr' = (osErr \/ e # EINTR)
                  /\ failErrno' = (IF e # EINTR THEN e ELSE failErrno)
                  /\ AfterRead(-1, e)
                  /\ UNCHANGED <<fdtab, rbuf>>
             \/ \E k \in 0 .. call'.avail :
                  /\ k = 0 => call'.avail = 0
                  /\ rbuf' = Slice(FileOf(fd), fdtab[fd].pos, k)
                  /\ fdtab' = [fdtab EXCEPT ![fd].pos = @ + k]
                  /\ AfterRead(k, errno)
                  /\ UNCHANGED <<errno, osErr, failErrno>>
  /\ calls' = (IF pc' = "idle" THEN 0 ELSE 1 - calls)
  /\ UNCHANGED <<disk, fd, filename, op, writtenLength, accepted, startPos,
                 lastWrite, closeCalls, ENABLE_DIRECT_IO, directIOAllowed, flg,
                 flagCalls, life>>

\* ------------------------------------------------------------- maintenance
truncate(length) ==
  /\ pc = "idle"
  /\ pc' = "idle"
  /\ closeCalls' = 0
  /\ UNCHANGED <<fd, filename, fdtab>>
  /\ IF fd = -1
     THEN /\ disk' = disk
          /\ Atomic("truncate", length, 0, "DlAbortEx", 0, FALSE, "0")
     ELSE \/ /\ disk' = [disk EXCEPT ![fdtab[fd].path].data = Resize(@, length)]
             /\ Atomic("truncate", length, 0, "ok", 0, FALSE, "0")
          \/ /\ disk' = disk
             /\ Atomic("truncate", length, 0, "ok", 0, TRUE, EIO)

StatSizeCursor(f) == fdtab[f].pos
\* line 175: fileStat.st_size of the file descriptor f is open on
StatSize(f) == Len(FileOf(f))

size ==
  /\ pc = "idle"
  /\ pc' = "idle"
  /\ closeCalls' = 0
  /\ UNCHANGED <<fd, filename, fdtab, disk>>
  /\ IF fd = -1
     THEN Atomic("size", 0, 0, "DlAbortEx", 0, FALSE, "0")
     ELSE \/ Atomic("size", 0, 0, "ok", StatSize(fd), FALSE, "0")
          \/ Atomic("size", 0, 0, "ok", 0, TRUE, EIO)

\* --------------------------------------------------------------- direct I/O
DirectIOGuardNone == TRUE
\* line 180: if(_directIOAllowed)
DirectIOGuard == directIOAllowed

\* entry of enableDirectIO / disableDirectIO: with the body compiled in and
\* taken, the F_GETFL loop is next; otherwise the call returns at once
FlagOpBegin(name, taken) ==
  /\ pc = "idle"
  /\ closeCalls' = 0
  /\ UNCHANGED <<disk, fd, filename, fdtab>>
  /\ IF ENABLE_DIRECT_IO /\ taken
     THEN pc' = "g_call" /\ Atomic(name, 0, 0, "none", 0, FALSE, "0")
     ELSE pc' = "idle" /\ Atomic(name, 0, 0, "ok", 0, FALSE, "0")

enableDirectIO == FlagOpBegin("enableDirectIO", DirectIOGuard)

disableDirectIO == FlagOpBegin("disableDirectIO", TRUE)

\* the status flags of open descriptor f as fcntl(f, F_GETFL) returns them
DescFlags(f) == IF fdtab[f].direct THEN O_DIRECT ELSE 0

\* one fcntl(fd, F_GETFL) of lines 182, 192: flg takes what it returns, and the
\* loop goes round again after EINTR only
FcntlGetStep ==
  /\ pc = "g_call"
  /\ \E r \in {-1, 0, O_DIRECT}, e \in {EINTR, EBADF} :
       /\ IF FdValid(fd)
          THEN (r = -1 /\ e = EINTR) \/ (r = DescFlags(fd) /\ e = EBADF)
          ELSE r = -1 /\ e = EBADF
       /\ flg' = r
       /\ errno' = (IF r = -1 THEN e ELSE errno)
       /\ osErr' = (osErr \/ (r = -1 /\ e # EINTR))
       /\ pc' = (IF IsInterrupted(r, e) THEN "g_call" ELSE "s_call")
  /\ flagCalls' = 1
  /\ UNCHANGED <<disk, fdtab, fd, filename, op, writtenLength, ret, outcome,
                 retval, rbuf, call, accepted, startPos, failErrno, lastWrite,
                 closeCalls, calls, ENABLE_DIRECT_IO, directIOAllowed, life>>

\* the flags handed to fcntl(fd, F_SETFL, ...) by lines 183, 194
SetFlagsArg(name, w) ==
  IF name = "enableDirectIO" THEN OrDirect(w) ELSE AndNotDirect(w)

\* one fcntl(fd, F_SETFL, ...) of lines 183, 194: its value is looked at for
\* the EINTR retry only, and the operation returns
FcntlSetStep ==
  /\ pc = "s_call"
  /\ \E r \in {-1, 0}, e \in {EINTR, EINVAL, EBADF} :
       /\ IF FdValid(fd)
          THEN (r = -1 /\ e \in {EINTR, EINVAL}) \/ (r = 0 /\ e = EINVAL)
          ELSE r = -1 /\ e = EBADF
       /\ fdtab' = (IF r = 0
                    THEN [fdtab EXCEPT ![fd].direct =
                            HasDirect(SetFlagsArg(op.name, flg))]
                    ELSE fdtab)
       /\ errno' = (IF r = -1 THEN e ELSE errno)
       /\ osErr' = (osErr \/ (r = -1 /\ e # EINTR))
       /\ IF IsInterrupted(r, e)
          THEN pc' = "s_call" /\ outcome' = outcome
          ELSE pc' = "idle" /\ outcome' = "ok"
  /\ flagCalls' = 1
  /\ UNCHANGED <<disk, fd, filename, op, writtenLength, ret, retval, rbuf, call,
                 accepted, startPos, failErrno, lastWrite, closeCalls, calls,
                 ENABLE_DIRECT_IO, directIOAllowed, flg, life>>

\* --------------------------------------------------------- specification
Next ==
  \/ \E path \in Paths : openFile(path)
  \/ \E path \in Paths : openExistingFile(path)
  \/ \E path \in Paths : createFile(path, 0)
  \/ closeFile
  \/ Destructor
  \/ \E offset \in Offsets : seek(offset)
  \/ \E data \in DataSet, offset \in Offsets : WriteDataBegin(data, offset)
  \/ WriteStep
  \/ \E len \in Lengths, offset \in Offsets : ReadDataBegin(len, offset)
  \/ ReadStep
  \/ \E length \in 0 .. MaxFileLen : truncate(length)
  \/ size
  \/ enableDirectIO
  \/ disableDirectIO

Spec == Init /\ [][Next]_vars

\* the build with ENABLE_DIRECT_IO: the operations that open, close, read and
\* change descriptor flags (the transfers neither read nor change them)
NextDirect ==
  \/ \E path \in Paths : openFile(path)
  \/ \E path \in Paths : openExistingFile(path)
  \/ \E path \in Paths, addFlags \in AddFlags : createFile(path, addFlags)
  \/ closeFile
  \/ Destructor
  \/ enableDirectIO
  \/ disableDirectIO
  \/ FcntlGetStep
  \/ FcntlSetStep

DirectSpec == InitDirect /\ [][NextDirect]_vars

\* the code keeps running a transfer it has begun; an OS write call that is not
\* interrupted by a signal comes round eventually
LiveSpec ==
  /\ Init
  /\ [][Next]_vars
  /\ WF_vars(WriteStep)
  /\ WF_vars(ReadStep)
  /\ SF_vars(WriteStep /\ ~(ret' = -1 /\ errno' = EINTR))

\* ================================================================ claims
Raised == {"DlAbortEx", "DownloadFailureException"}
Finished(name) == pc = "idle" /\ op.name = name

\* a readData that directly follows a successful writeData(data, L, offset),
\* offset >= 0, and asks for the same L bytes at the same offset, has returned
ReadBack ==
  /\ Finished("readData")
  /\ lastWrite.valid
  /\ lastWrite.offset >= 0

\* C1 (as claimed): a successful writeData(bytes, L, offset) followed by
\* readData(L, offset) returns L and exactly those bytes.
C1_RoundTrip ==
  ReadBack => /\ outcome = "ok"
              /\ retval = Len(lastWrite.data)
              /\ rbuf = lastWrite.data

\* C1 (amended): after a successful writeData(bytes, L, offset), whatever partial
\* writes and interruptions it went through, all L bytes are there for the
\* readData(L, offset) that follows; that readData raises only when its OS read
\* call failed, and otherwise returns n <= L and the first n of those bytes,
\* n = L when the OS read call delivers all the bytes available.
C1_RoundTripDelivered ==
  ReadBack =>
    /\ call.avail = Len(lastWrite.data)
    /\ outcome # "ok" => outcome = "DlAbortEx" /\ failErrno # "0"
    /\ outcome = "ok" =>
         /\ retval \in 0 .. Len(lastWrite.data)
         /\ rbuf = SubSeq(lastWrite.data, 1, retval)
         /\ retval = call.avail => retval = Len(lastWrite.data) /\ rbuf = lastWrite.data

C1_Witness ==
  /\ ReadBack
  /\ lastWrite.split
  /\ lastWrite.offset = 1
  /\ outcome = "ok"
  /\ retval = MaxLen
  /\ rbuf = lastWrite.data

\* bytes 1..n of data stand in the file of descriptor f from position pos on
Landed(f, pos, data, n) ==
  /\ Len(FileOf(f)) >= pos + n
  /\ \A i \in 1 .. n : FileOf(f)[pos + i] = data[i]

C2_CallResumes ==
  pc = "w_call" => call'.pos = accepted /\ call'.n = op.len - accepted

Guarded == {"truncate", "size", "seek", "writeData", "readData"}

\* C3 (as claimed): in the not-open state each of truncate, size, seek, writeData
\* and readData raises and never returns normally, whatever its arguments.
C3_GuardRaises ==
  pc = "idle" /\ op.name \in Guarded /\ op.fd0 = -1 => outcome \in Raised

Closers == {"closeFile", "destructor"}

C4_SecondCloseIdle ==
  pc = "idle" /\ op'.name \in Closers /\ fd = -1 =>
    UNCHANGED <<disk, fdtab, fd, filename>>

\* C4: closeFile and the destructor never raise; after either the instance is
\* not open (fd = -1) and the descriptor it held is released by one OS close
\* call; called on an instance that is not open they issue no OS close call and
\* change neither the instance nor the descriptor table nor the file system.
C4_IdempotentClose ==
  /\ [](op.name \in Closers =>
          /\ pc \in {"idle", "destroyed"}
          /\ outcome = "ok"
          /\ fd = -1
          /\ op.fd0 >= 0 => closeCalls = 1 /\ ~fdtab[op.fd0].open
          /\ op.fd0 = -1 => closeCalls = 0)
  /\ [][C4_SecondCloseIdle]_vars

\* a closeFile on an instance that an earlier closeFile had closed: the file
\* holds a byte the instance wrote, and no descriptor is open
C4_Witness ==
  /\ Finished("closeFile")
  /\ op.fd0 = -1
  /\ closeCalls = 0
  /\ OpenFds = {}
  /\ Len(disk["p"].data) = 1

\* C5 (as claimed): the instance holds at most one descriptor it acquired and
\* has not released, and none it acquired is open and unreachable.
C5_AtMostOneHandle ==
  /\ Cardinality(OpenFds) <= 1
  /\ \A f \in OpenFds : f = fd

\* C6: a writeData whose OS write call failed with ENOSPC throws
\* DownloadFailureException, one whose OS write call failed with another error
\* (not EINTR) throws DlAbortEx, and DownloadFailureException is thrown in no
\* other case.
C6_SpaceExhaustion ==
  Finished("writeData") =>
    /\ failErrno = ENOSPC => outcome = "DownloadFailureException"
    /\ failErrno \notin {"0", ENOSPC} => outcome = "DlAbortEx"
    /\ outcome = "DownloadFailureException" => failErrno = ENOSPC

\* out of space after a part of the buffer was written
C6_Witness ==
  /\ Finished("writeData")
  /\ outcome = "DownloadFailureException"
  /\ accepted > 0

Transfer == {"w_call", "r_call"}

C7_NoProgressNoRaise ==
  pc \in Transfer /\ ret' = -1 /\ errno' = EINTR =>
    /\ pc' = pc
    /\ outcome' = "none"
    /\ writtenLength' = writtenLength
    /\ accepted' = accepted

C7_SameCallAgain ==
  pc \in Transfer /\ ret = -1 /\ errno = EINTR =>
    call'.pos = call.pos /\ call'.n = call.n

\* C7: an OS write or read call that fails with EINTR leaves the operation
\* running with the written count unchanged and nothing raised, and the call
\* that follows it has the same buffer position and the same length.
C7_InterruptTransparent ==
  [][C7_NoProgressNoRaise /\ C7_SameCallAgain]_vars

\* a writeData that was interrupted on the way and returned success
C7_Witness ==
  /\ Finished("writeData")
  /\ outcome = "ok"
  /\ errno = EINTR
  /\ accepted = MaxLen

\* C8: once an OS write or read call of the operation has failed with an error
\* other than EINTR, the operation is over and has raised: no state in which
\* it would issue another call follows.
C8_NoRetryAfterError ==
  failErrno # "0" => pc = "idle" /\ outcome \in Raised

C8_Witness ==
  /\ Finished("writeData")
  /\ failErrno = EIO
  /\ accepted > 0
  /\ accepted < op.len

Surfacing == {"openFile", "openExistingFile", "createFile", "seek", "writeData",
              "readData", "truncate"}

\* C9 (as claimed): an open, create, seek, write, read or truncate whose OS call
\* failed with an error other than EINTR raises and does not return normally.
C9_NoHiddenFailure ==
  pc = "idle" /\ op.name \in Surfacing /\ osErr => outcome \in Raised

\* C10 (as claimed): every writeData that has reached its write loop returns or
\* raises, whatever the OS write calls return, zero included, provided
\* interruptions do not recur forever.
C10_WriteTerminates == (pc = "w_call") ~> (pc = "idle")

\* a step that is a whole call of the named operation
CallOf(names) == pc = "idle" /\ pc' = "idle" /\ op'.name \in names

\* openFile / openExistingFile of a path that is a regular file touches no file;
\* when it returns, fd is a descriptor of that path, its cursor at 0
C11_OpenKeeps ==
  CallOf({"openFile", "openExistingFile"}) /\ disk[filename'].kind = "file" =>
    /\ disk' = disk
    /\ outcome' = "ok" =>
         /\ fd' \in Fds
         /\ fdtab'[fd'].open
         /\ fdtab'[fd'].path = filename'
         /\ fdtab'[fd'].pos = 0

\* createFile that returns leaves its path an empty regular file, fd a
\* descriptor of it; the size() that follows returns 0
C11_CreateEmpties ==
  /\ CallOf({"createFile"}) /\ outcome' = "ok" =>
        /\ disk'[filename'] = RegFile(<<>>)
        /\ fd' \in Fds
        /\ fdtab'[fd'].open
        /\ fdtab'[fd'].path = filename'
        /\ fdtab'[fd'].pos = 0
  /\ Finished("createFile") /\ outcome = "ok" /\ CallOf({"size"}) =>
        outcome' = "ok" /\ retval' = 0

\* a readData that returns while the file is empty, as createFile left it,
\* returns 0 bytes
C11_EmptyReads ==
  /\ pc = "r_call" /\ pc' = "idle" /\ outcome' = "ok"
  /\ FdValid(fd) /\ FileOf(fd) = <<>>
  => retval' = 0 /\ rbuf' = <<>>

C11_Step == C11_OpenKeeps /\ C11_CreateEmpties /\ C11_EmptyReads

\* C11: openFile on a path that exists as a regular file leaves the file's
\* content and length unchanged and binds the handle to it; createFile on an
\* existing path makes the file empty before any transfer, so that a later
\* size() returns 0 and a later readData returns 0 bytes.
C11_OpenVersusCreate == [][C11_Step]_vars

\* openFile has returned on a file that had content: the content is still there
C11_Witness ==
  /\ Finished("openFile")
  /\ outcome = "ok"
  /\ FdValid(fd)
  /\ Len(FileOf(fd)) = 2

\* one OS read call of a readData on an open instance, as C12 has it: a call
\* that succeeds ends the operation, which returns what that call delivered,
\* min(length, max(0, fileLength - offset)) when that is all there was to
\* deliver; the operation goes on only after EINTR and raises only on a failed
\* call
C12_ReadCall ==
  pc = "r_call" /\ FdValid(fd) =>
    /\ ret' >= 0 =>
         /\ pc' = "idle"
         /\ outcome' = "ok"
         /\ retval' = ret'
         /\ Len(rbuf') = ret'
         /\ ret' = call'.avail =>
              ret' = Min(op.len, Max(0, Len(FileOf(fd)) - op.offset))
    /\ pc' = "r_call" => IsInterrupted(ret', errno')
    /\ outcome' \in Raised => ret' = -1 /\ failErrno' # "0"

\* C12: readData(length, offset) on an open instance performs exactly one
\* successful OS read call (repeated only after EINTR, never looped to fill the
\* buffer) and returns min(length, max(0, fileLength - offset)) bytes when the OS
\* delivers all available bytes, possibly zero, without raising; it raises
\* ReadError only when the OS read fails.
C12_EofRead == [][C12_ReadCall]_vars

\* C13: seek(offset) raises SeekError whenever the OS seek call fails or returns
\* a position different from offset, and returns normally only when the cursor
\* is at the absolute offset requested, for every value of the signed offset.
C13_SeekChecked ==
  Finished("seek") =>
    /\ osErr => outcome \in Raised
    /\ outcome = "ok" => FdValid(fd) /\ fdtab[fd].pos = op.offset

\* C14: size() raises NotOpenError when no file is open; on an open instance it
\* returns the current on-disk length of the file, and it returns 0 without
\* raising when the status query itself fails.
C14_SizeQuery ==
  Finished("size") =>
    /\ op.fd0 = -1 => outcome = "DlAbortEx"
    /\ op.fd0 # -1 =>
         /\ outcome = "ok"
         /\ FdValid(fd)
         /\ ~osErr => retval = Len(disk[fdtab[fd].path].data)
         /\ osErr => retval = 0

\* size() has returned the length of a file as long as the longest buffer
C14_Witness ==
  /\ Finished("size")
  /\ outcome = "ok"
  /\ ~osErr
  /\ retval = MaxLen

FlagOps == {"enableDirectIO", "disableDirectIO"}

\* enableDirectIO called with _directIOAllowed not set: no fcntl call, no
\* descriptor touched, and the call has returned
C15_NotAllowedNoEffect ==
  pc = "idle" /\ op'.name = "enableDirectIO" /\ ~directIOAllowed =>
    /\ pc' = "idle"
    /\ outcome' = "ok"
    /\ flagCalls' = 0
    /\ fdtab' = fdtab

\* a step of enableDirectIO / disableDirectIO never throws and never changes a
\* field of the instance or a file; the same fcntl call is issued again only
\* after EINTR, and any other failure lets the operation go on to its end
C15_NeverFails ==
  op'.name \in FlagOps =>
    /\ outcome' \in {"none", "ok"}
    /\ pc' = "idle" <=> outcome' = "ok"
    /\ <<fd, filename, disk>>' = <<fd, filename, disk>>
    /\ pc \in {"g_call", "s_call"} /\ pc' = pc => errno' = EINTR
    /\ pc \in {"g_call", "s_call"} /\ osErr' /\ ~osErr => pc' # pc

C15_Step == C15_NotAllowedNoEffect /\ C15_NeverFails

\* C15: enableDirectIO changes nothing (no OS flag call, handle flags
\* unchanged) when directIOAllowed is not set; neither enableDirectIO nor
\* disableDirectIO ever raises or fails the caller, whatever the OS flag-change
\* call returns, retrying only across EINTR.
C15_DirectIOAdvisory == [][C15_Step]_vars

\* enableDirectIO has returned, not allowed, on a descriptor that createFile
\* opened with O_DIRECT: the flag is still set
C15_Witness ==
  /\ Finished("enableDirectIO")
  /\ ~directIOAllowed
  /\ FdValid(fd)
  /\ fdtab[fd].direct
  /\ flagCalls = 0

\* a truncate(length) call on an open instance, as C16 has it: the file is
\* length bytes long afterwards, its first min(oldLength, length) bytes are
\* the ones it had, and no cursor has moved
C16_TruncateCall ==
  CallOf({"truncate"}) /\ FdValid(fd) =>
    /\ outcome' = "ok"
    /\ Len(disk'[fdtab[fd].path].data) = op'.len
    /\ \A i \in 1 .. Min(Len(FileOf(fd)), op'.len) :
         disk'[fdtab[fd].path].data[i] = FileOf(fd)[i]
    /\ fdtab' = fdtab

\* C16: truncate(length) on an open instance sets the file's length to length
\* (bytes at positions >= length are gone, bytes below min(oldLength, length)
\* are unchanged) and leaves the file cursor where it was.
C16_TruncateSetsLength == [][C16_TruncateCall]_vars

\* C17: in every reachable state where the handle is open, the recorded path is
\* the path on which that handle was opened; a failing openFile or createFile
\* on an open instance does not leave the new path bound to the old handle.
C17_PathOfHandle == FdValid(fd) => filename = fdtab[fd].path

\* one OS write call of a writeData(data, length, offset) on an open instance,
\* as C18 has it: with k bytes accepted before it and k' after it, the bytes
\* at [offset+k, offset+k') are now data's bytes k+1 .. k', every byte the
\* file had elsewhere is as it was, no other file has changed; and when the
\* call ends, by return or by exception, data's first k' bytes stand at
\* [offset, offset+k')
C18_WriteCall ==
  pc = "w_call" /\ FdValid(fd) =>
    LET path == fdtab[fd].path
        old == disk[path].data
        new == disk'[path].data
        at(j) == op.offset + j
    IN /\ \A q \in Paths \ {path} : disk'[q] = disk[q]
       /\ Len(new) >= Len(old)
       /\ \A i \in 1 .. Len(old) :
            (i <= at(accepted) \/ i > at(accepted')) => new[i] = old[i]
       /\ \A j \in accepted + 1 .. accepted' :
            at(j) \in 1 .. Len(new) /\ new[at(j)] = op.data[j]
       /\ pc' = "idle" =>
            \A j \in 1 .. accepted' :
              at(j) \in 1 .. Len(new) /\ new[at(j)] = op.data[j]

\* C18: a writeData(data, length, offset) call, whether it succeeds or raises
\* after partial progress, changes no byte of the file outside
\* [offset, offset+length); when it raises after k bytes were accepted, the
\* bytes at [offset, offset+k) equal the first k bytes of data and the bytes at
\* [offset+k, offset+length) that existed before are unchanged.
C18_WriteFrame == [][C18_WriteCall]_vars

\* C19: after createFile(p), a successful writeData(bytes, L, offset),
\* closeFile() and then openFile(p), the instance is open again on the same
\* file and readData(L, offset) returns exactly bytes; between the closeFile
\* and the openFile every guarded operation raises.
C19_Persistence ==
  /\ life.phase = "closed" =>
        /\ fd = -1
        /\ pc = "idle" /\ op.name \in Guarded => outcome \in Raised
  /\ life.phase = "reopened" => FdValid(fd) /\ fdtab[fd].path = life.path
  /\ life.phase = "read" /\ pc = "idle" =>
        /\ outcome = "ok"
        /\ retval = Len(life.data)
        /\ rbuf = life.data

====
